---- MODULE Spec2Model ----
(***************************************************************************)
(* A model of Task_3/Task3.ipynb: the Alpha3 rank-correlation strategy     *)
(* run by a backtrader Cerebro engine, the loading of its data feeds and   *)
(* the trade-level performance report.                                     *)
(*                                                                         *)
(* Prices are integers; executed prices and P&L are kept in thousandths of *)
(* a price unit and commissions in millionths, so that the 0.001           *)
(* commission and the 0.001 slippage are exact.                            *)
(*                                                                         *)
(* The engine is backtrader's default one (preload=True, runonce=True):    *)
(* every feed is loaded whole before the run, a Market order created in    *)
(* next() is executed by the broker at the open of the next bar of the     *)
(* order's data (not before that data has moved past the bar the order was *)
(* created on), and trade notifications are delivered before next() is     *)
(* called.  Starting cash (1,000,000) exceeds every price of the model by  *)
(* far, so the broker accepts every order and cash is not kept.            *)
(***************************************************************************)
EXTENDS Integers, Sequences, FiniteSets, TLC

\* ------------------------------------------------------------------ bounds

\* params.lookback_period, scaled down from the notebook's default of 10.
lookback_period == 3
\* Opens range over 2..MaxOpen (so that low = open - 1 stays positive).
MaxOpen == 4
\* The longest list of source files (SpecLoad).
MaxFiles == 3

\* Every primary series has lookback_period + 1 bars: lookback_period - 1
\* bars with a short history and two bars with a full window.
NumBars == lookback_period + 1
\* A non-primary series has the fewest bars for which a window can be read.
SecondaryBars == lookback_period - 1

\* -------------------------------------------------------------- input data

required_columns == {"open", "high", "low", "close", "volume"}

Bar(o, v) == [open |-> o, high |-> o + 1, low |-> o - 1, volume |-> v]

Bars == {Bar(o, v) : o \in 2..MaxOpen, v \in {1, 2}}

AllSeries == [1..NumBars -> Bars]

SecondarySeries == [1..SecondaryBars -> {Bar(2, 1), Bar(MaxOpen, 2)}]

\* One series for the file lists of SpecLoad, whose subject is the loading.
FixedSeries == [i \in 1..SecondaryBars |-> Bar(2 + (i % 2), 1 + (i % 2))]

\* A CSV file as load_stock_data sees it: its time column, its columns, its rows.
File(t, cols, rows) == [timecol |-> t, columns |-> cols, bars |-> rows]

GoodFile(rows) == File("timestamp", required_columns, rows)

FileKinds ==
    {File(t, cols, FixedSeries) :
        t \in {"timestamp", "date", "none"},
        cols \in {required_columns, required_columns \ {"volume"},
                  required_columns \ {"open", "close"}}}

\* ------------------------------------------------------------------- state

VARIABLES
    files,        \* the '1h.csv' files os.walk yields, in order
    next_file,    \* the loading loop's position in files
    datas,        \* cerebro.datas: the feeds added, each the file it was read from
    phase,        \* loading | advance | next | finished | reported | raised
    idx,          \* len(data) of each feed: the bars delivered so far
    position,     \* broker position size of each feed
    pending,      \* broker's pending orders
    orders,       \* every order the strategy created
    trades,       \* strategy._trades: the Trade objects, the open one last
    trade_pnls,   \* Alpha3Strategy.trade_pnls
    alpha_signal, \* the signal of the last next()
    report        \* what generate_performance_report computed

vars == <<files, next_file, datas, phase, idx, position, pending, orders,
          trades, trade_pnls, alpha_signal, report>>

\* A number of the report: kind is num | nan | inf | unset.  A num is
\* num/den, except for the Sharpe and Sortino ratios where it is
\* num/sqrt(den).
Val(k, n, d) == [kind |-> k, num |-> n, den |-> d]
Zero == Val("num", 0, 1)
NaN == Val("nan", 0, 1)
Inf == Val("inf", 0, 1)
Unset == Val("unset", 0, 1)

NoSignal == [nan |-> TRUE, num |-> 0, sxx |-> 0, syy |-> 0, computed |-> FALSE]

NoReport == [sharpe_ratio |-> Unset, sortino_ratio |-> Unset,
             max_drawdown |-> Unset, trade_count |-> Unset, hit_ratio |-> Unset]

InitState ==
    /\ next_file = 1
    /\ datas = <<>>
    /\ phase = "loading"
    /\ idx = <<>>
    /\ position = <<>>
    /\ pending = <<>>
    /\ orders = <<>>
    /\ trades = <<>>
    /\ trade_pnls = <<>>
    /\ alpha_signal = NoSignal
    /\ report = NoReport

\* One instrument, or two with a file that cannot be loaded between them.
Init ==
    /\ files \in {<<GoodFile(s)>> : s \in AllSeries}
                 \cup {<<GoodFile(s), File("none", required_columns, t), File("date", required_columns, t)>> :
                        s \in AllSeries, t \in SecondarySeries}
    /\ InitState

RECURSIVE SeqsUpTo(_, _)
SeqsUpTo(S, n) ==
    IF n = 0 THEN {<<>>}
    ELSE LET shorter == SeqsUpTo(S, n - 1)
         IN shorter \cup {Append(s, x) : s \in {t \in shorter : Len(t) = n - 1}, x \in S}

InitLoad ==
    /\ files \in SeqsUpTo(FileKinds, MaxFiles)
    /\ InitState

\* ----------------------------------------------------------------- loading

HasTimeColumn(f) == f.timecol \in {"timestamp", "date"}

\* The check of the columns with 'volume' forgotten.
MissingColumnsButVolume(f) == {col \in required_columns \ {"volume"} : col \notin f.columns}

MissingColumns(f) == {col \in required_columns : col \notin f.columns}

\* load_stock_data raises KeyError for a file it cannot load.
LoadRaisesKeyError(f) == ~HasTimeColumn(f) \/ MissingColumns(f) # {}

LoadFile ==
    /\ phase = "loading"
    /\ next_file <= Len(files)
    /\ ~LoadRaisesKeyError(files[next_file])
    /\ datas' = Append(datas, [src |-> next_file])
    /\ idx' = Append(idx, 0)
    /\ position' = Append(position, 0)
    /\ next_file' = next_file + 1
    /\ UNCHANGED <<files, phase, pending, orders, trades, trade_pnls, alpha_signal, report>>

SkipFile ==
    /\ phase = "loading"
    /\ next_file <= Len(files)
    /\ LoadRaisesKeyError(files[next_file])
    /\ next_file' = next_file + 1
    /\ UNCHANGED <<files, datas, phase, idx, position, pending, orders, trades,
                   trade_pnls, alpha_signal, report>>

StartRun ==
    /\ phase = "loading"
    /\ next_file > Len(files)
    /\ phase' = "advance"
    /\ UNCHANGED <<files, next_file, datas, idx, position, pending, orders, trades,
                   trade_pnls, alpha_signal, report>>

\* The bars of feed d: the rows of the DataFrame it was built from.
DataBars(d) == files[datas[d].src].bars

\* ------------------------------------------------------------ alpha signal

\* The feed added last taken for self.data.
LastData == Len(datas)

\* self.data is the first feed added to the engine.
PrimaryData == 1

\* self.data.<line>[-i] for i in range(lookback_period), on a preloaded feed:
\* the line buffer holds the whole series and reads array[idx - i], a Python
\* index, so a negative one counts from the END of the series.  n is
\* len(data), the bar delivered last.
PyIndex(series, k) == IF k >= 0 THEN series[k + 1] ELSE series[Len(series) + k + 1]

Window(series, n) == [i \in 1..lookback_period |-> PyIndex(series, (n - 1) - (i - 1))]

RECURSIVE SumSeq(_, _)
SumSeq(xs, n) == IF n = 0 THEN 0 ELSE xs[n] + SumSeq(xs, n - 1)

\* pd.Series.rank(): average ranks, here doubled to stay integral.
Rank2(xs) ==
    [j \in 1..Len(xs) |->
        2 * Cardinality({k \in 1..Len(xs) : xs[k] < xs[j]})
          + Cardinality({k \in 1..Len(xs) : xs[k] = xs[j]}) + 1]

\* n * sum(x*y) - sum(x) * sum(y): n^2 times the covariance.
CoMoment(xs, ys) ==
    Len(xs) * SumSeq([j \in 1..Len(xs) |-> xs[j] * ys[j]], Len(xs))
      - SumSeq(xs, Len(xs)) * SumSeq(ys, Len(ys))

\* alpha_signal = -1 * open_rank.corr(volume_rank) over the last
\* lookback_period opens and volumes, kept exact as num/sqrt(sxx*syy);
\* NaN when a rank series has no variance.
AlphaSignal(series, n) ==
    LET w == Window(series, n)
        open_rank == Rank2([i \in 1..lookback_period |-> w[i].open])
        volume_rank == Rank2([i \in 1..lookback_period |-> w[i].volume])
        sxx == CoMoment(open_rank, open_rank)
        syy == CoMoment(volume_rank, volume_rank)
    IN [nan |-> sxx = 0 \/ syy = 0,
        num |-> -1 * CoMoment(open_rank, volume_rank),
        sxx |-> sxx, syy |-> syy, computed |-> TRUE]

\* signal < -0.5 and signal > 0.5; both are False for NaN.
BelowMinusHalf(sig) == ~sig.nan /\ sig.num < 0 /\ 4 * sig.num * sig.num > sig.sxx * sig.syy
AboveHalf(sig) == ~sig.nan /\ sig.num > 0 /\ 4 * sig.num * sig.num > sig.sxx * sig.syy

\* ----------------------------------------------------------------- strategy

\* The buy rule with the threshold at 0.5 instead of -0.5.
BuySignalBelowHalf(sig) ==
    ~sig.nan /\ ~(sig.num > 0 /\ 4 * sig.num * sig.num >= sig.sxx * sig.syy)

BuySignal(sig) == BelowMinusHalf(sig)

SellSignal(sig) == AboveHalf(sig)

\* `if not self.position`
BuyAllowed(pos) == pos = 0

\* `if self.position`
SellAllowed(pos) == pos # 0

Order(side, d, bar) == [side |-> side, data |-> d, bar |-> bar]

\* Alpha3Strategy.next
StrategyNext ==
    /\ phase = "next"
    /\ \E sig \in {AlphaSignal(DataBars(PrimaryData), idx[PrimaryData])} :
       LET d == PrimaryData
           buys == IF BuySignal(sig) /\ BuyAllowed(position[d])
                   THEN <<Order("BUY", d, idx[d])>> ELSE <<>>
           sells == IF SellSignal(sig) /\ SellAllowed(position[d])
                    THEN <<Order("SELL", d, idx[d])>> ELSE <<>>
       IN /\ alpha_signal' = sig
          /\ pending' = pending \o buys \o sells
          /\ orders' = orders \o buys \o sells
    /\ phase' = "advance"
    /\ UNCHANGED <<files, next_file, datas, idx, position, trades, trade_pnls, report>>

\* ------------------------------------------------------------------- broker

\* set_slippage_perc(0.001): a buy is filled above the open and a sell below
\* it, never outside the bar's high and low (slip_match).  In thousandths.
SlipUp(pmax, price) ==
    IF price * 1001 <= pmax * 1000 THEN price * 1001 ELSE pmax * 1000

SlipDown(pmin, price) ==
    IF price * 999 >= pmin * 1000 THEN price * 999 ELSE pmin * 1000

\* setcommission(commission=0.001): 0.001 * |size| * price, in millionths
\* for a price in thousandths.
Commission(size, price) == (IF size < 0 THEN -size ELSE size) * price

\* The open Trade of feed d, if any.
OpenTrades(trs, d) == {k \in 1..Len(trs) : trs[k].data = d /\ ~trs[k].isclosed}

\* Alpha3Strategy.notify_trade
NotifyTrade(ledger, trade) ==
    IF trade.isclosed THEN Append(ledger, trade.pnl) ELSE ledger

\* The broker executes one Market order at the open of the order's data and
\* the strategy's Trade of that data is opened, grown, reduced or closed.
\* st is [position, trades, trade_pnls, pending]; at is len(data) of each
\* feed.  The orders pending together were created on one bar and are filled
\* at one price, so the average price of a long Trade is exact; that of a
\* short Trade grown on a later bar is rounded, and never read: next() buys
\* only when flat, so a short Trade is never reduced.
Execute(st, o, at) ==
    LET d == o.data
        bar == DataBars(d)[at[d]]
        size == IF o.side = "BUY" THEN 1 ELSE -1
        price == IF o.side = "BUY" THEN SlipUp(bar.high, bar.open)
                 ELSE SlipDown(bar.low, bar.open)
        comm == Commission(size, price)
        open == OpenTrades(st.trades, d)
        k == CHOOSE j \in open : TRUE
        old == st.trades[k]
        grown == [old EXCEPT !.size = old.size + size,
                             !.price = (old.size * old.price + size * price) \div (old.size + size),
                             !.commission = old.commission + comm]
        pnl == old.pnl + (-size) * (price - old.price)
        reduced == [old EXCEPT !.size = old.size + size,
                               !.pnl = pnl,
                               !.commission = old.commission + comm,
                               !.pnlcomm = 1000 * pnl - (old.commission + comm),
                               !.isclosed = (old.size + size = 0),
                               !.exit_open = bar.open,
                               !.exit_price = price]
        opened == [data |-> d, size |-> size, price |-> price, pnl |-> 0,
                   commission |-> comm, pnlcomm |-> -comm, isclosed |-> FALSE,
                   entry_open |-> bar.open, exit_open |-> 0, exit_price |-> 0]
        trade == IF open = {} THEN opened
                 ELSE IF old.size * size > 0 THEN grown ELSE reduced
    IN [position |-> [st.position EXCEPT ![d] = @ + size],
        trades |-> IF open = {} THEN Append(st.trades, trade)
                   ELSE [st.trades EXCEPT ![k] = trade],
        trade_pnls |-> NotifyTrade(st.trade_pnls, trade),
        pending |-> st.pending]

\* A Market order can only execute after its creation time: once its data
\* has delivered a bar later than the one the order was created on.
CanExecute(o, at) == at[o.data] > o.bar

\* The broker goes once through its pending orders, oldest first; an order
\* that cannot execute yet stays pending.
RECURSIVE BrokerNext(_, _, _)
BrokerNext(st, pend, at) ==
    IF pend = <<>> THEN st
    ELSE IF CanExecute(Head(pend), at)
         THEN BrokerNext(Execute(st, Head(pend), at), Tail(pend), at)
         ELSE BrokerNext([st EXCEPT !.pending = Append(@, Head(pend))], Tail(pend), at)

\* ------------------------------------------------------------------- engine

Exhausted(d) == idx[d] = Len(DataBars(d))

\* One step of cerebro.run(): the feeds holding the earliest timestamp deliver
\* their next bar (any non-empty set of the feeds that still have bars: the
\* timelines are not aligned), the broker executes the pending orders it
\* can, the trades are notified, and next() is due once every feed has
\* delivered a bar.
CerebroAdvance ==
    /\ phase = "advance"
    /\ \E moving \in SUBSET {d \in 1..Len(datas) : ~Exhausted(d)} :
        /\ moving # {}
        /\ LET at == [d \in 1..Len(datas) |-> IF d \in moving THEN idx[d] + 1 ELSE idx[d]]
               st == BrokerNext([position |-> position, trades |-> trades,
                                 trade_pnls |-> trade_pnls, pending |-> <<>>],
                                pending, at)
           IN /\ idx' = at
              /\ pending' = st.pending
              /\ position' = st.position
              /\ trades' = st.trades
              /\ trade_pnls' = st.trade_pnls
              /\ phase' = IF \A d \in 1..Len(datas) : at[d] >= 1 THEN "next" ELSE "advance"
    /\ UNCHANGED <<files, next_file, datas, orders, alpha_signal, report>>

\* cerebro.run() returns once every feed is exhausted (at once with no feed).
FinishRun ==
    /\ phase = "advance"
    /\ \A d \in 1..Len(datas) : Exhausted(d)
    /\ phase' = "finished"
    /\ UNCHANGED <<files, next_file, datas, idx, position, pending, orders, trades,
                   trade_pnls, alpha_signal, report>>

\* ------------------------------------------------------------------- report

\* daily_returns[daily_returns > 0]
Positive(xs) == SelectSeq(xs, LAMBDA x : x > 0)

\* n^2 times the variance np.std takes the root of.
Radicand(xs) ==
    Len(xs) * SumSeq([j \in 1..Len(xs) |-> xs[j] * xs[j]], Len(xs))
      - SumSeq(xs, Len(xs)) * SumSeq(xs, Len(xs))

\* np.mean(xs) / np.std(xs) if np.std(xs) != 0 else 0.  Of an empty array
\* np.mean and np.std are NaN (with a RuntimeWarning), and NaN != 0 is True.
\* The division by initial_value cancels.  Arithmetic is exact here.
MeanOverStd(xs) ==
    IF xs = <<>> THEN NaN
    ELSE IF Radicand(xs) # 0 THEN Val("num", SumSeq(xs, Len(xs)), Radicand(xs))
    ELSE Zero

MinOf(xs) == CHOOSE m \in {xs[j] : j \in 1..Len(xs)} : \A j \in 1..Len(xs) : m <= xs[j]
MaxOf(xs) == CHOOSE m \in {xs[j] : j \in 1..Len(xs)} : \A j \in 1..Len(xs) : m >= xs[j]

\* max(1 - (min(xs) / max(xs)), 0) for a non-empty xs; a numpy division by
\* zero gives -inf or NaN, and Python's max keeps a NaN first argument.
MaxDrawdown(xs) ==
    LET mn == MinOf(xs)
        mx == MaxOf(xs)
    IN IF mx = 0 THEN (IF mn = 0 THEN NaN ELSE Inf)
       ELSE IF mx > 0 THEN Val("num", mx - mn, mx)
       ELSE Zero

WinningTrades(xs) == Len(SelectSeq(xs, LAMBDA pnl : pnl > 0))

HitRatio(xs) == IF Len(xs) > 0 THEN Val("num", WinningTrades(xs), Len(xs)) ELSE Zero

\* generate_performance_report: cerebro.runstrats does not exist when the
\* engine had no feed to run (run() returns before creating it), and the
\* builtin min() raises ValueError on an empty ledger, after the Sharpe and
\* Sortino ratios were printed and before the trade count and the hit ratio.
GeneratePerformanceReport ==
    /\ phase = "finished"
    /\ IF datas = <<>>
       THEN /\ report' = NoReport
            /\ phase' = "raised"
       ELSE IF trade_pnls = <<>>
       THEN /\ report' = [NoReport EXCEPT !.sharpe_ratio = MeanOverStd(trade_pnls),
                                          !.sortino_ratio = MeanOverStd(Positive(trade_pnls))]
            /\ phase' = "raised"
       ELSE /\ report' = [sharpe_ratio |-> MeanOverStd(trade_pnls),
                          sortino_ratio |-> MeanOverStd(Positive(trade_pnls)),
                          max_drawdown |-> MaxDrawdown(trade_pnls),
                          trade_count |-> Val("num", Len(trade_pnls), 1),
                          hit_ratio |-> HitRatio(trade_pnls)]
            /\ phase' = "reported"
    /\ UNCHANGED <<files, next_file, datas, idx, position, pending, orders, trades,
                   trade_pnls, alpha_signal>>

\* ----------------------------------------------------------- specifications

Next ==
    \/ LoadFile
    \/ SkipFile
    \/ StartRun
    \/ CerebroAdvance
    \/ StrategyNext
    \/ FinishRun
    \/ GeneratePerformanceReport

\* The run of one or two instruments over every series of the bounds.
Spec == Init /\ [][Next]_vars

\* The same program over every list of source files of the bounds.
SpecLoad == InitLoad /\ [][Next]_vars

\* ------------------------------------------------------------------ claims

ClosedTrades == SelectSeq(trades, LAMBDA t : t.isclosed)

\* next() has run and no bar has been delivered since: alpha_signal, pending
\* and position are those next() left.
AfterNext == alpha_signal.computed /\ phase # "next"

ReportRan == phase \in {"reported", "raised"}

\* C1: next() never creates two BUY orders without a SELL between them; a
\* BUY is created only while the position is flat, and at most one trade is
\* open at any time.
C1_NoSecondBuy ==
    /\ \A i \in 1..(Len(orders) - 1) :
          orders[i].side = "BUY" => orders[i + 1].side = "SELL"
    /\ \A i \in 1..Len(pending) :
          pending[i].side = "BUY" => position[pending[i].data] = 0
    /\ Cardinality({k \in 1..Len(trades) : ~trades[k].isclosed}) <= 1
    /\ \A d \in 1..Len(position) : position[d] \in {0, 1}

\* The signal is NaN or strictly between -0.5 and 0.5.
HoldZone(sig) == sig.nan \/ 4 * sig.num * sig.num < sig.sxx * sig.syy

C3_ZeroTradesReport ==
    (ReportRan /\ trade_pnls = <<>>)
        => /\ phase = "reported"
           /\ report.sharpe_ratio = Zero
           /\ report.sortino_ratio = Zero
           /\ report.max_drawdown = Zero
           /\ report.hit_ratio = Zero

\* C4: on a bar with fewer than lookback_period bars of history the signal
\* is undefined and next() creates no order.
C4_NoActionOnShortHistory ==
    /\ \A i \in 1..Len(orders) : orders[i].bar >= lookback_period
    /\ (AfterNext /\ idx[1] < lookback_period) => alpha_signal.nan

\* A file that load_stock_data can load.
Loadable(f) == f.timecol # "none" /\ required_columns \subseteq f.columns

\* C5: a file without a time column or without one of open, high, low,
\* close, volume is never added as a feed, every loadable file before or
\* after it is added, in order, and the run starts after the whole list.
C5_SkipUnloadable ==
    /\ \A k \in 1..Len(datas) :
          /\ datas[k].src \in 1..(next_file - 1)
          /\ Loadable(files[datas[k].src])
          /\ \A j \in 1..(k - 1) : datas[j].src < datas[k].src
    /\ \A i \in 1..(next_file - 1) :
          Loadable(files[i]) => \E k \in 1..Len(datas) : datas[k].src = i
    /\ phase # "loading" => next_file = Len(files) + 1

\* Files loaded before and after a file that lacks a column, and the run
\* under way on both.
C5_Witness ==
    /\ Len(files) = 3
    /\ "volume" \notin files[2].columns
    /\ Len(datas) = 2
    /\ datas[1].src = 1 /\ datas[2].src = 3
    /\ phase = "next"
    /\ idx[2] >= 1

\* C6: the ledger holds one entry per closed trade, in closing order, an
\* open trade has none, and the reported trade frequency is the number of
\* closed trades.
C6_LedgerAndFrequency ==
    /\ Len(trade_pnls) = Len(ClosedTrades)
    /\ \A k \in 1..Len(trade_pnls) : trade_pnls[k] = ClosedTrades[k].pnl
    /\ ReportRan => report.trade_count = Val("num", Len(ClosedTrades), 1)

\* The parts of C6 the report does not touch: the entries are those of the
\* closed trades and the ledger only grows, by appending.
LedgerMatchesClosedTrades ==
    /\ Len(trade_pnls) = Len(ClosedTrades)
    /\ \A k \in 1..Len(trade_pnls) : trade_pnls[k] = ClosedTrades[k].pnl

LedgerAppendOnly ==
    [][/\ Len(trade_pnls') >= Len(trade_pnls)
       /\ SubSeq(trade_pnls', 1, Len(trade_pnls)) = trade_pnls]_vars

\* C7: the P&L recorded for a closed trade is the price move times the
\* quantity less the commission and the slippage of both legs.  In
\* millionths; the slippage of a leg is what the fill lost to the open.
C7_PnlNetOfCosts ==
    \A k \in 1..Len(trade_pnls) :
        LET t == ClosedTrades[k]
            slippage == (t.price - 1000 * t.entry_open) + (1000 * t.exit_open - t.exit_price)
        IN k <= Len(ClosedTrades) =>
             1000 * trade_pnls[k]
               = 1000 * (1000 * (t.exit_open - t.entry_open) - slippage) - t.commission

\* C8: the Sortino ratio is the mean over the deviation of the strictly
\* positive entries, and 0 when there is none or they do not vary.
C8_SortinoOverPositive ==
    phase = "reported" =>
        LET pos == SelectSeq(trade_pnls, LAMBDA x : x > 0)
        IN report.sortino_ratio
             = IF pos = <<>> \/ Radicand(pos) = 0 THEN Zero
               ELSE Val("num", SumSeq(pos, Len(pos)), Radicand(pos))

\* C9: hit_ratio * trade_count is the number of entries with a strictly
\* positive P&L, and the hit ratio is 0 for an empty ledger.
C9_HitRatioConsistent ==
    ReportRan =>
        /\ report.hit_ratio.kind = "num"
        /\ report.hit_ratio.num * Len(trade_pnls)
             = Cardinality({k \in 1..Len(trade_pnls) : trade_pnls[k] > 0}) * report.hit_ratio.den
        /\ trade_pnls = <<>> => report.hit_ratio = Zero

\* C10: the signal is that of the first feed's bars, every order and every
\* trade is on the first feed, and no other feed ever holds a position,
\* however the feeds' bars interleave.
C10_PrimaryOnly ==
    /\ \A i \in 1..Len(orders) : orders[i].data = 1
    /\ \A k \in 1..Len(trades) : trades[k].data = 1
    /\ \A d \in 2..Len(position) : position[d] = 0
    /\ AfterNext => alpha_signal = AlphaSignal(files[datas[1].src].bars, idx[1])

\* Two feeds, the second one delivering bars whose own signal differs, and
\* a position open on the first.
C10_Witness ==
    /\ Len(datas) = 2
    /\ AfterNext
    /\ phase = "advance"
    /\ idx[2] >= 1 /\ idx[2] # idx[1]
    /\ AlphaSignal(files[datas[2].src].bars, idx[2]) # alpha_signal
    /\ ~alpha_signal.nan
    /\ position[1] = 1

====
